---- MODULE Spec2Model ----
(***************************************************************************)
(* Jarvis CLI: the chat facade (jarvis/client.py), the prompt reader, the  *)
(* streaming renderer and the main loop (jarvis/cli.py).                   *)
(*                                                                         *)
(* Text is a sequence of characters (one-character strings), so that       *)
(* strip, lower, join, startswith and endswith are computed, not assumed.  *)
(*                                                                         *)
(* The codebase scanner (jarvis/scanner.py) is modelled too.  The content  *)
(* of a file is run-length encoded: a sequence of runs [c, n], n copies of *)
(* the character c, so that files of 10,000 characters stay small while    *)
(* len, split and textwrap.shorten are still computed.                     *)
(***************************************************************************)
EXTENDS Integers, Sequences, FiniteSets, TLC

\* ------------------------------------------------------------------ bounds
MaxContext == 12        \* largest --context value tried at startup
MaxHistory == 5         \* an ask is started only if its two entries still fit
MaxFrags == 2           \* longest backend response, in fragments
MaxTyped == 2           \* most lines typed by hand in one prompt read of the loop
MaxPaste == 4           \* most lines of a block pasted to the prompt reader
MaxFiles == 7           \* most .py files under the scan root
MaxRuns == 3            \* most runs in the content of a file scanned alone

\* --------------------------------------------------------------- constants
MODEL_NAME == "gemma3:4b"
MAX_RETRIES == 3
BACKOFF_SEC_X10 == 15   \* BACKOFF_SEC = 1.5, in tenths of a second
MAX_CHARS_PER_FILE == 10000
MAX_TOTAL_CHARS == 60000

ModelNames == {MODEL_NAME, "llama3", "phi3"}

Empty == <<>>
NL == "\n"

\* the system prompt of JarvisClient.__init__, kept as one token
SystemContent ==
    << "You are **Jarvis**, Tony-Stark-style AI assistant. Respond concisely with helpful explanations. Format code inside triple-backtick blocks." >>

SystemMessage == [role |-> "system", content |-> SystemContent]

\* ------------------------------------------------------------ text helpers
IsSpace(c) == c \in {" ", "\t", "\n"}

LowerChar(c) ==
    CASE c = "S" -> "s" [] c = "E" -> "e" [] c = "N" -> "n" [] c = "D" -> "d"
      [] c = "W" -> "w" [] c = "C" -> "c" [] c = "A" -> "a" [] c = "O" -> "o"
      [] OTHER -> c

\* str.lower()
Lower(s) == [i \in 1..Len(s) |-> LowerChar(s[i])]

RECURSIVE LStrip(_)
LStrip(s) == IF s # Empty /\ IsSpace(Head(s)) THEN LStrip(Tail(s)) ELSE s

RECURSIVE RStrip(_)
RStrip(s) ==
    IF s # Empty /\ IsSpace(s[Len(s)]) THEN RStrip(SubSeq(s, 1, Len(s) - 1)) ELSE s

\* str.strip()
Strip(s) == RStrip(LStrip(s))

\* str.rstrip("\n")
RECURSIVE RStripNL(_)
RStripNL(s) ==
    IF s # Empty /\ s[Len(s)] = NL THEN RStripNL(SubSeq(s, 1, Len(s) - 1)) ELSE s

\* "\n".join(lines)
RECURSIVE Join(_)
Join(ls) ==
    IF ls = << >> THEN Empty
    ELSE IF Len(ls) = 1 THEN ls[1]
    ELSE ls[1] \o <<NL>> \o Join(Tail(ls))

\* str.startswith / str.endswith
StartsWith(s, p) == Len(s) >= Len(p) /\ SubSeq(s, 1, Len(p)) = p
EndsWith(s, p) == Len(s) >= Len(p) /\ SubSeq(s, Len(s) - Len(p) + 1, Len(s)) = p

\* "".join(fragments)
RECURSIVE Concat(_)
Concat(fs) == IF fs = << >> THEN Empty ELSE Head(fs) \o Concat(Tail(fs))

SendCmd == <<"/", "s", "e", "n", "d">>
NewCmd == <<"/", "n", "e", "w">>
ScanCmd == <<"/", "s", "c", "a", "n", "c", "o", "d", "e">>

\* ------------------------------------------------------------------- state
VARIABLES
    pc,             \* position of the caller: cli() or a direct user of the facade
    err,            \* exception that ended the caller, "none" while it runs
    model,          \* --model option
    context_window, \* --context option
    history,        \* JarvisClient._history
    gpc,            \* position of the generator returned by ask
    prompt,         \* argument of the current ask
    attempt,        \* loop variable of ask
    stream,         \* fragments the open backend stream has still to send
    backend,        \* per attempt of the current ask: does the backend fail in it
    delivered,      \* fragments the current ask has yielded so far
    waits,          \* time.sleep calls of the current ask, in tenths of a second
    calls,          \* ollama.chat calls of the current ask
    hist0,          \* history when the current ask was issued
    resp,           \* response the backend chose in the latest attempt
    clean,          \* no reset happened while the current ask was suspended
    lines,          \* draft of _read_multiline_question
    stdin,          \* lines already waiting on standard input (a pasted block)
    typed,          \* lines input() has returned since the current prompt read began
    key,            \* last input event of the prompt read
    question,       \* cli's variable question: the text the reader returned last
    answer,         \* chunks _render_response has accumulated
    cancelled,      \* _render_response caught an interrupt in this turn
    branch,         \* branch the loop took on the latest question
    root_files,     \* what root.rglob("*.py") yields: [path, text], in walk order
    gitignore,      \* root-relative paths the patterns of root/.gitignore match
    cwd,            \* working directory of the process: "root" or "other"
    cwd_files,      \* relative path -> text of the file it names from cwd
    py_files,       \* scan's list py_files, from_paths' argument files
    idx,            \* position of the loop "for f in files" of from_paths
    total,          \* from_paths' variable total
    body            \* from_paths' list body

clientVars == <<history, gpc, prompt, attempt, stream, backend, delivered, waits,
                calls, hist0, resp, clean>>
readerVars == <<lines, stdin, typed, key, question>>
renderVars == <<answer, cancelled>>
optVars == <<model, context_window>>
scanVars == <<root_files, gitignore, cwd, cwd_files, py_files, idx, total, body>>
vars == <<pc, err, model, context_window, history, gpc, prompt, attempt, stream,
          backend, delivered, waits, calls, hist0, resp, clean, lines, stdin, typed, key,
          question, answer, cancelled, branch, root_files, gitignore, cwd, cwd_files,
          py_files, idx, total, body>>

\* ----------------------------------------------------------------- inputs
\* backend responses: x, y, x, ... cut after 0..MaxFrags fragments
Fragment(i) == IF i % 2 = 1 THEN <<"x">> ELSE <<"y">>
Responses == {[i \in 1..n |-> Fragment(i)] : n \in 0..MaxFrags}
Prompts == {<<"h", "i">>, <<"x">>}
Backends == [1..MAX_RETRIES -> {"ok", "fail"}]

\* ------------------------------------------------------ JarvisClient: state
\* JarvisClient.__init__(model)
NewHistory == <<SystemMessage>>

NoAsk ==
    /\ gpc = "none"
    /\ prompt = Empty
    /\ attempt = 0
    /\ stream = << >>
    /\ backend = [k \in 1..MAX_RETRIES |-> "ok"]
    /\ delivered = << >>
    /\ waits = << >>
    /\ calls = 0
    /\ hist0 = << >>
    /\ resp = << >>
    /\ clean = TRUE

\* no scan is under way
NoScan ==
    /\ root_files = << >>
    /\ gitignore = {}
    /\ cwd = "root"
    /\ cwd_files = << >>
    /\ py_files = << >>
    /\ idx = 0
    /\ total = 0
    /\ body = << >>

NoRead ==
    /\ lines = << >>
    /\ stdin = << >>
    /\ typed = << >>
    /\ key = "none"
    /\ question = Empty
    /\ answer = << >>
    /\ cancelled = FALSE
    /\ branch = "none"

\* the generator is suspended and waits for its consumer
Suspended == gpc \in {"fresh", "yield"}
\* the generator has ended: returned, raised, or was closed
Ended == gpc \in {"done", "raised", "closed", "killed"}
\* the generator body is executing
Running == gpc \in {"start", "call", "read", "sleep", "exhausted"}
\* the generator body is inside ollama.chat, a read of the stream or time.sleep
Blocking == gpc \in {"call", "read", "sleep"}

\* ------------------------------------------------------- JarvisClient.reset
ResetHistoryLast(h) == SubSeq(h, Len(h), Len(h))

ResetHistory(h) == SubSeq(h, 1, 1)

\* --------------------------------------------------------- JarvisClient.ask
\* ask(prompt): creates the generator; no statement of the body has run yet
CreateAsk(p, b) ==
    /\ gpc' = "fresh"
    /\ prompt' = p
    /\ backend' = b
    /\ attempt' = 0
    /\ stream' = << >>
    /\ delivered' = << >>
    /\ waits' = << >>
    /\ calls' = 0
    /\ hist0' = history
    /\ resp' = << >>
    /\ clean' = TRUE
    /\ UNCHANGED history

\* self._history.append({"role": "user", "content": prompt})
AppendUserTwice(h, p) ==
    Append(Append(h, [role |-> "user", content |-> p]),
           [role |-> "user", content |-> p])

AppendUser(h, p) == Append(h, [role |-> "user", content |-> p])

\* first statement of the body: the user entry, then the first attempt
GenStart ==
    /\ gpc = "start"
    /\ history' = AppendUser(history, prompt)
    /\ attempt' = 1
    /\ gpc' = "call"
    /\ UNCHANGED <<pc, err, prompt, stream, backend, delivered, waits, calls,
                   hist0, resp, clean>>
    /\ UNCHANGED <<optVars, readerVars, renderVars>>
    /\ UNCHANGED branch
    /\ UNCHANGED scanVars

\* ollama.chat(...): the stream opens, or the call fails
GenCall ==
    /\ gpc = "call"
    /\ calls' = calls + 1
    /\ \/ /\ \E r \in Responses : stream' = r /\ resp' = r
          /\ gpc' = "read"
       \/ /\ backend[attempt] = "fail"
          /\ stream' = << >>
          /\ resp' = << >>
          /\ gpc' = "sleep"
    /\ UNCHANGED <<pc, err, history, prompt, attempt, backend, delivered, waits,
                   hist0, clean>>
    /\ UNCHANGED <<optVars, readerVars, renderVars>>
    /\ UNCHANGED branch
    /\ UNCHANGED scanVars

\* content of the assistant entry appended once the stream is exhausted
AssistantContent(h) == h[Len(h)].content

\* for chunk in stream: the next chunk is yielded, the stream ends, or the
\* read fails
GenRead ==
    /\ gpc = "read"
    /\ \/ /\ stream # << >>
          /\ delivered' = Append(delivered, Head(stream))
          /\ stream' = Tail(stream)
          /\ gpc' = "yield"
          /\ UNCHANGED history
       \/ /\ stream = << >>
          /\ backend[attempt] = "ok"
          /\ history' = Append(history,
                 [role |-> "assistant", content |-> AssistantContent(history)])
          /\ gpc' = "done"
          /\ UNCHANGED <<stream, delivered>>
       \/ /\ backend[attempt] = "fail"
          /\ stream' = << >>
          /\ gpc' = "sleep"
          /\ UNCHANGED <<history, delivered>>
    /\ UNCHANGED <<pc, err, prompt, attempt, backend, waits, calls, hist0, resp, clean>>
    /\ UNCHANGED <<optVars, readerVars, renderVars>>
    /\ UNCHANGED branch
    /\ UNCHANGED scanVars

\* for attempt in range(1, MAX_RETRIES + 1): is there an attempt after k
MoreAttemptsShort(k) == k < MAX_RETRIES - 1

MoreAttempts(k) == k < MAX_RETRIES

\* seconds (x10) slept after failed attempt k
Backoff(k) == BACKOFF_SEC_X10 * k

\* except (ConnectionError, ReadTimeout): log, sleep, next turn of the for loop
GenSleep ==
    /\ gpc = "sleep"
    /\ waits' = Append(waits, Backoff(attempt))
    /\ IF MoreAttempts(attempt)
         THEN attempt' = attempt + 1 /\ gpc' = "call"
         ELSE attempt' = attempt /\ gpc' = "exhausted"
    /\ UNCHANGED <<pc, err, history, prompt, stream, backend, delivered, calls,
                   hist0, resp, clean>>
    /\ UNCHANGED <<optVars, readerVars, renderVars>>
    /\ UNCHANGED branch
    /\ UNCHANGED scanVars

\* a raise that first takes the user entry back
GenRaiseRollback ==
    /\ gpc = "exhausted"
    /\ gpc' = "raised"
    /\ history' = SubSeq(history, 1, Len(history) - 1)
    /\ UNCHANGED <<pc, err, prompt, attempt, stream, backend, delivered,
                   waits, calls, hist0, resp, clean>>
    /\ UNCHANGED <<optVars, readerVars, renderVars>>
    /\ UNCHANGED branch
    /\ UNCHANGED scanVars

\* raise RuntimeError(...) after the for loop
GenRaise ==
    /\ gpc = "exhausted"
    /\ gpc' = "raised"
    /\ UNCHANGED <<pc, err, history, prompt, attempt, stream, backend, delivered,
                   waits, calls, hist0, resp, clean>>
    /\ UNCHANGED <<optVars, readerVars, renderVars>>
    /\ UNCHANGED branch
    /\ UNCHANGED scanVars

\* next(generator), as the consumer's for loop calls it
Resume == IF gpc = "fresh" THEN "start" ELSE "read"

\* ---------------------------------- a direct user of the facade (pc = "api")
InitApi ==
    /\ pc = "api"
    /\ err = "none"
    /\ model = MODEL_NAME
    /\ context_window = 8192
    /\ history = NewHistory
    /\ NoAsk
    /\ NoRead
    /\ NoScan

\* gen = client.ask(p)
ApiAsk ==
    /\ pc = "api"
    /\ Len(history) + 2 <= MaxHistory
    /\ \E p \in Prompts, b \in Backends : CreateAsk(p, b)
    /\ pc' = "hold"
    /\ UNCHANGED <<err, optVars, readerVars, renderVars>>
    /\ UNCHANGED branch
    /\ UNCHANGED scanVars

\* next(gen)
ApiNext ==
    /\ pc = "hold"
    /\ Suspended
    /\ gpc' = Resume
    /\ UNCHANGED <<pc, err, history, prompt, attempt, stream, backend, delivered,
                   waits, calls, hist0, resp, clean>>
    /\ UNCHANGED <<optVars, readerVars, renderVars>>
    /\ UNCHANGED branch
    /\ UNCHANGED scanVars

\* the for loop over gen ends: StopIteration, or RuntimeError caught by the user
ApiEnd ==
    /\ pc = "hold"
    /\ gpc \in {"done", "raised"}
    /\ pc' = "api"
    /\ UNCHANGED <<err, clientVars, optVars, readerVars, renderVars>>
    /\ UNCHANGED branch
    /\ UNCHANGED scanVars

\* gen.close(): GeneratorExit at the yield is not caught by ask
ApiAbandon ==
    /\ pc = "hold"
    /\ Suspended
    /\ gpc' = "closed"
    /\ pc' = "api"
    /\ UNCHANGED <<err, history, prompt, attempt, stream, backend, delivered,
                   waits, calls, hist0, resp, clean>>
    /\ UNCHANGED <<optVars, readerVars, renderVars>>
    /\ UNCHANGED branch
    /\ UNCHANGED scanVars

\* client.reset() between two asks
ApiReset ==
    /\ pc = "api"
    /\ history' = ResetHistory(history)
    /\ UNCHANGED <<pc, err, gpc, prompt, attempt, stream, backend, delivered,
                   waits, calls, hist0, resp, clean>>
    /\ UNCHANGED <<optVars, readerVars, renderVars>>
    /\ UNCHANGED branch
    /\ UNCHANGED scanVars

\* client.reset() while the generator of an ask is suspended
ApiResetMid ==
    /\ pc = "hold"
    /\ Suspended
    /\ history' = ResetHistory(history)
    /\ clean' = FALSE
    /\ UNCHANGED <<pc, err, gpc, prompt, attempt, stream, backend, delivered,
                   waits, calls, hist0, resp>>
    /\ UNCHANGED <<optVars, readerVars, renderVars>>
    /\ UNCHANGED branch
    /\ UNCHANGED scanVars

Next ==
    \/ ApiAsk
    \/ ApiNext
    \/ ApiEnd
    \/ ApiAbandon
    \/ ApiReset
    \/ ApiResetMid
    \/ GenStart
    \/ GenCall
    \/ GenRead
    \/ GenSleep
    \/ GenRaise

Spec == InitApi /\ [][Next]_vars

\* ------------------------------------------------------------ cli: startup
\* parameters of JarvisClient.__init__ besides self
InitParams == {"model"}
\* keyword arguments of the construction in cli()
ConstructKwargs == {"model", "context_size"}

InitCli ==
    /\ pc = "start"
    /\ err = "none"
    /\ model \in ModelNames
    /\ context_window \in 1..MaxContext
    /\ history = << >>
    /\ NoAsk
    /\ NoRead
    /\ NoScan

\* console.print of the banner
CliBanner ==
    /\ pc = "start"
    /\ pc' = "construct"
    /\ UNCHANGED <<err, clientVars, optVars, readerVars, renderVars>>
    /\ UNCHANGED branch
    /\ UNCHANGED scanVars

\* client = JarvisClient(model=model, context_size=context_window)
CliConstruct ==
    /\ pc = "construct"
    /\ IF ConstructKwargs \subseteq InitParams
         THEN /\ history' = NewHistory
              /\ pc' = "read"
              /\ err' = err
         ELSE /\ history' = history
              /\ pc' = "error"
              /\ err' = "TypeError"
    /\ UNCHANGED <<gpc, prompt, attempt, stream, backend, delivered, waits, calls,
                   hist0, resp, clean>>
    /\ UNCHANGED <<optVars, readerVars, renderVars>>
    /\ UNCHANGED branch
    /\ UNCHANGED scanVars

NextCli ==
    \/ CliBanner
    \/ CliConstruct

SpecCli == InitCli /\ [][NextCli]_vars

\* ------------------------------------------------ _read_multiline_question
\* a reader that lets any empty line end the prompt
TerminatesAnyBlank(ls, line) ==
    \/ Lower(Strip(line)) \in {SendCmd, NewCmd}
    \/ line = Empty

\* sentinel in {"/send", "/new"} or (line == "" and lines)
Terminates(ls, line) ==
    \/ Lower(Strip(line)) \in {SendCmd, NewCmd}
    \/ (line = Empty /\ ls # << >>)

\* the draft after input() returned line
Capture(ls, line) ==
    IF Terminates(ls, line) THEN Append(ls, line)
    ELSE IF line = Empty /\ ls = << >> THEN ls
    ELSE Append(ls, line)

\* a reader that leaves the closing line out of the returned text
QuestionWithoutLast(ls) == RStripNL(Join(SubSeq(ls, 1, Len(ls) - 1)))

\* "\n".join(lines).rstrip("\n")
Question(ls) == RStripNL(Join(ls))

\* the text returned on Ctrl-C
InterruptResultDraft(ls) == Question(ls)

InterruptResult(ls) == Empty

\* line = input(): the next pasted line, or a line typed now out of L
ReadLine(L) ==
    /\ pc = "read"
    /\ \E line \in (IF stdin # << >> THEN {Head(stdin)} ELSE L) :
          /\ stdin # << >> \/ Len(typed) < MaxTyped
          /\ stdin' = IF stdin # << >> THEN Tail(stdin) ELSE stdin
          /\ typed' = Append(typed, line)
          /\ key' = "line"
          /\ lines' = Capture(lines, line)
          /\ IF Terminates(lines, line)
               THEN /\ question' = Question(lines')
                    /\ pc' = "dispatch"
               ELSE /\ question' = question
                    /\ pc' = "read"
    /\ UNCHANGED <<err, clientVars, optVars, renderVars>>
    /\ UNCHANGED branch
    /\ UNCHANGED scanVars

\* except KeyboardInterrupt: return ""
ReadInterrupt ==
    /\ pc = "read"
    /\ key' = "int"
    /\ question' = InterruptResult(lines)
    /\ lines' = << >>
    /\ pc' = "dispatch"
    /\ UNCHANGED <<stdin, typed>>
    /\ UNCHANGED <<err, clientVars, optVars, renderVars>>
    /\ UNCHANGED branch
    /\ UNCHANGED scanVars

\* except EOFError: raise SystemExit(0)
ReadEOF ==
    /\ pc = "read"
    /\ key' = "eof"
    /\ pc' = "exit"
    /\ UNCHANGED <<lines, stdin, typed, question>>
    /\ UNCHANGED <<err, clientVars, optVars, renderVars>>
    /\ UNCHANGED branch
    /\ UNCHANGED scanVars

\* the next call of _read_multiline_question: lines = []
BackToRead ==
    /\ pc' = "read"
    /\ lines' = << >>
    /\ typed' = << >>
    /\ UNCHANGED <<stdin, key, question>>

\* ------------------------------------- the prompt reader called on its own
ReaderLines ==
    { Empty, <<"a">>, <<"b", " ">>, <<" ">>, SendCmd, <<"/", "N", "e", "w">>,
      <<" ", "/", "s", "e", "n", "d", " ">> }

PastedBlocks == UNION {[1..n -> ReaderLines] : n \in 0..MaxPaste}

InitReader ==
    /\ pc = "read"
    /\ err = "none"
    /\ model = MODEL_NAME
    /\ context_window = 8192
    /\ history = NewHistory
    /\ NoAsk
    /\ lines = << >>
    /\ stdin \in PastedBlocks
    /\ typed = << >>
    /\ key = "none"
    /\ question = Empty
    /\ answer = << >>
    /\ cancelled = FALSE
    /\ branch = "none"
    /\ NoScan

ReaderReadLine == ReadLine({})

\* the caller calls the reader again, on what is left of the block
ReaderAgain ==
    /\ pc = "dispatch"
    /\ BackToRead
    /\ UNCHANGED <<err, clientVars, optVars, renderVars>>
    /\ UNCHANGED branch
    /\ UNCHANGED scanVars

NextReader ==
    \/ ReaderReadLine
    \/ ReadInterrupt
    \/ ReadEOF
    \/ ReaderAgain

SpecReader == InitReader /\ [][NextReader]_vars

\* ------------------------------------------------------- cli: the main loop
\* lines typed at the prompt of the loop
LoopLines ==
    { Empty, <<"a">>, SendCmd, <<"/", "N", "e", "w">>, ScanCmd,
      <<"/", "s", "c", "a", "n", "c", "o", "d", "e", " ", "p">> }

\* public methods of JarvisClient
ClientMethods == {"reset", "ask"}

\* the while loop, entered with a client as JarvisClient(model) builds it
InitLoop ==
    /\ pc = "read"
    /\ err = "none"
    /\ model = MODEL_NAME
    /\ context_window = 8192
    /\ history = NewHistory
    /\ NoAsk
    /\ NoRead
    /\ NoScan

LoopReadLine == ReadLine(LoopLines)

\* if not question.strip()
IsBlank(q) == Strip(q) = Empty

\* question.strip().lower().startswith("/scancode")
IsScancode(q) == StartsWith(Lower(Strip(q)), ScanCmd)

\* a dispatch that takes only the bare command for /new
IsNewExact(q) == Lower(Strip(q)) = NewCmd

\* question.strip().lower().endswith("/new")
IsNew(q) == EndsWith(Lower(Strip(q)), NewCmd)

\* if not question.strip(): continue
LoopIgnore ==
    /\ pc = "dispatch"
    /\ IsBlank(question)
    /\ BackToRead
    /\ UNCHANGED <<err, clientVars, optVars, renderVars>>
    /\ branch' = "ignore"
    /\ UNCHANGED scanVars

\* client.scan_codebase(parts[1]): the attribute lookup comes first
LoopScancode ==
    /\ pc = "dispatch"
    /\ ~IsBlank(question)
    /\ IsScancode(question)
    /\ IF "scan_codebase" \in ClientMethods
         THEN /\ pc' = "read"
              /\ err' = err
         ELSE /\ pc' = "error"
              /\ err' = "AttributeError"
    /\ UNCHANGED <<clientVars, optVars, readerVars, renderVars>>
    /\ branch' = "scancode"
    /\ UNCHANGED scanVars

\* client.reset(); continue
LoopNew ==
    /\ pc = "dispatch"
    /\ ~IsBlank(question)
    /\ ~IsScancode(question)
    /\ IsNew(question)
    /\ history' = ResetHistory(history)
    /\ BackToRead
    /\ UNCHANGED <<err, gpc, prompt, attempt, stream, backend, delivered, waits,
                   calls, hist0, resp, clean>>
    /\ UNCHANGED <<optVars, renderVars>>
    /\ branch' = "new"
    /\ UNCHANGED scanVars

\* _render_response(client.ask(question)): the generator is made, Live starts
LoopAsk ==
    /\ pc = "dispatch"
    /\ ~IsBlank(question)
    /\ ~IsScancode(question)
    /\ ~IsNew(question)
    /\ Len(history) + 2 <= MaxHistory
    /\ \E b \in Backends : CreateAsk(question, b)
    /\ pc' = "render"
    /\ answer' = << >>
    /\ cancelled' = FALSE
    /\ lines' = << >>
    /\ typed' = << >>
    /\ UNCHANGED <<stdin, key, question>>
    /\ UNCHANGED <<err, optVars>>
    /\ branch' = "ask"
    /\ UNCHANGED scanVars

\* --------------------------------------------------------- _render_response
\* for chunk in stream: answer.append(chunk); live.update(...)
RenderNext ==
    /\ pc = "render"
    /\ Suspended
    /\ answer' = IF gpc = "yield" THEN Append(answer, delivered[Len(delivered)])
                 ELSE answer
    /\ gpc' = Resume
    /\ UNCHANGED cancelled
    /\ UNCHANGED <<pc, err, history, prompt, attempt, stream, backend, delivered,
                   waits, calls, hist0, resp, clean>>
    /\ UNCHANGED <<optVars, readerVars>>
    /\ UNCHANGED branch
    /\ UNCHANGED scanVars

\* _render_response returns: its locals and the generator are dropped
DropAsk ==
    /\ gpc' = "none"
    /\ prompt' = Empty
    /\ attempt' = 0
    /\ stream' = << >>
    /\ backend' = [k \in 1..MAX_RETRIES |-> "ok"]
    /\ delivered' = << >>
    /\ waits' = << >>
    /\ calls' = 0
    /\ hist0' = << >>
    /\ resp' = << >>
    /\ clean' = TRUE
    /\ answer' = << >>
    /\ UNCHANGED <<history, cancelled>>

\* the stream is exhausted: Live ends, console.print(), back to the loop
RenderEnd ==
    /\ pc = "render"
    /\ gpc = "done"
    /\ BackToRead
    /\ DropAsk
    /\ UNCHANGED <<err, optVars>>
    /\ UNCHANGED branch
    /\ UNCHANGED scanVars

\* a renderer that swallows the RuntimeError and returns to the loop
RenderFailSwallowed ==
    /\ pc = "render"
    /\ gpc = "raised"
    /\ BackToRead
    /\ DropAsk
    /\ UNCHANGED <<err, optVars>>
    /\ UNCHANGED branch
    /\ UNCHANGED scanVars

\* RuntimeError leaves the for loop, _render_response and cli()
RenderFail ==
    /\ pc = "render"
    /\ gpc = "raised"
    /\ pc' = "error"
    /\ err' = "RuntimeError"
    /\ UNCHANGED <<clientVars, optVars, readerVars, renderVars>>
    /\ UNCHANGED branch
    /\ UNCHANGED scanVars

\* Ctrl-C while the renderer itself runs, the generator being suspended
RenderInterrupt ==
    /\ pc = "render"
    /\ Suspended
    /\ cancelled' = TRUE
    /\ pc' = "drain"
    /\ UNCHANGED answer
    /\ UNCHANGED <<err, clientVars, optVars, readerVars>>
    /\ UNCHANGED branch
    /\ UNCHANGED scanVars

\* Ctrl-C inside a blocking call of the generator: KeyboardInterrupt is not
\* caught by ask, ends the generator and reaches the renderer's except clause
RenderInterruptInAsk ==
    /\ pc = "render"
    /\ Blocking
    /\ gpc' = "killed"
    /\ cancelled' = TRUE
    /\ pc' = "drain"
    /\ UNCHANGED answer
    /\ UNCHANGED <<err, history, prompt, attempt, stream, backend, delivered,
                   waits, calls, hist0, resp, clean>>
    /\ UNCHANGED <<optVars, readerVars>>
    /\ UNCHANGED branch
    /\ UNCHANGED scanVars

\* with suppress(Exception): for _ in stream: pass
DrainNext ==
    /\ pc = "drain"
    /\ Suspended
    /\ gpc' = Resume
    /\ UNCHANGED <<pc, err, history, prompt, attempt, stream, backend, delivered,
                   waits, calls, hist0, resp, clean>>
    /\ UNCHANGED <<optVars, readerVars, renderVars>>
    /\ UNCHANGED branch
    /\ UNCHANGED scanVars

\* the drain ends: StopIteration, or RuntimeError suppressed
DrainEnd ==
    /\ pc = "drain"
    /\ Ended
    /\ BackToRead
    /\ DropAsk
    /\ UNCHANGED <<err, optVars>>
    /\ UNCHANGED branch
    /\ UNCHANGED scanVars

\* a second Ctrl-C while draining: KeyboardInterrupt is no Exception, it
\* leaves _render_response and cli()
DrainInterrupt ==
    /\ pc = "drain"
    /\ Suspended \/ Blocking
    /\ gpc' = IF Blocking THEN "killed" ELSE gpc
    /\ pc' = "interrupted"
    /\ err' = "KeyboardInterrupt"
    /\ UNCHANGED <<history, prompt, attempt, stream, backend, delivered,
                   waits, calls, hist0, resp, clean>>
    /\ UNCHANGED <<optVars, readerVars, renderVars>>
    /\ UNCHANGED branch
    /\ UNCHANGED scanVars

NextLoop ==
    \/ LoopReadLine
    \/ ReadInterrupt
    \/ ReadEOF
    \/ LoopIgnore
    \/ LoopScancode
    \/ LoopNew
    \/ LoopAsk
    \/ RenderNext
    \/ RenderEnd
    \/ RenderFail
    \/ RenderInterrupt
    \/ RenderInterruptInAsk
    \/ DrainNext
    \/ DrainEnd
    \/ DrainInterrupt
    \/ GenStart
    \/ GenCall
    \/ GenRead
    \/ GenSleep
    \/ GenRaise

SpecLoop == InitLoop /\ [][NextLoop]_vars

\* a consumer that reads every ask to its end: no close, no reset in between
NextLive ==
    \/ ApiAsk
    \/ ApiNext
    \/ ApiEnd
    \/ ApiReset
    \/ GenStart
    \/ GenCall
    \/ GenRead
    \/ GenSleep
    \/ GenRaise

\* every blocking call of the generator returns (a chunk, the end, a timeout),
\* and the consumer's for loop keeps calling next
LiveSpec ==
    /\ InitApi
    /\ [][NextLive]_vars
    /\ WF_vars(GenStart \/ GenCall \/ GenRead \/ GenSleep \/ GenRaise)
    /\ WF_vars(ApiNext)

\* ------------------------------------------------------ scanner: file text
\* n copies of the character c
Run(c, n) == [c |-> c, n |-> n]

\* a literal string as file text
Chars(s) == [i \in 1..Len(s) |-> Run(s[i], 1)]

\* len(text)
RECURSIVE TextLen(_)
TextLen(t) == IF t = << >> THEN 0 ELSE Head(t).n + TextLen(Tail(t))

\* text.split(): the maximal stretches of a text without whitespace
RECURSIVE SplitWords(_, _)
SplitWords(t, cur) ==
    IF t = << >> THEN (IF cur = << >> THEN << >> ELSE <<cur>>)
    ELSE IF IsSpace(Head(t).c)
         THEN (IF cur = << >> THEN << >> ELSE <<cur>>) \o SplitWords(Tail(t), << >>)
         ELSE SplitWords(Tail(t), Append(cur, Head(t)))

\* " ".join(words)
RECURSIVE JoinWords(_)
JoinWords(ws) ==
    IF ws = << >> THEN << >>
    ELSE IF Len(ws) = 1 THEN ws[1]
    ELSE ws[1] \o <<Run(" ", 1)>> \o JoinWords(Tail(ws))

\* str.lstrip() on file text
RECURSIVE LStripRuns(_)
LStripRuns(t) == IF t # << >> /\ IsSpace(Head(t).c) THEN LStripRuns(Tail(t)) ELSE t

\* the single character U+2026
Ellipsis == "..."
\* the marker inside the placeholder
Marker == Chars(<<Ellipsis, "t", "r", "u", "n", "c", "a", "t", "e", "d", Ellipsis>>)
\* placeholder="\n# ...truncated...\n"
Placeholder == Chars(<<NL, "#", " ">>) \o Marker \o Chars(<<NL>>)

HasMarker(t) ==
    \E i \in 1..(Len(t) - Len(Marker) + 1) : SubSeq(t, i, i + Len(Marker) - 1) = Marker

\* textwrap.shorten(text, width, placeholder=Placeholder): whitespace is
\* collapsed first; a text that then fits is returned as it is; otherwise
\* words are dropped from the end until the placeholder fits behind them, and
\* with no word left the result is placeholder.lstrip().  A word longer than
\* the width is broken, but the broken piece fills the line and is dropped
\* again, so it never shows.  Words hold no hyphen here.
Shorten(text, width) ==
    LET ws == SplitWords(text, << >>)
        Fits(k) == TextLen(JoinWords(SubSeq(ws, 1, k))) + TextLen(Placeholder) <= width
        kept == {k \in 1..Len(ws) : Fits(k)}
        last == CHOOSE k \in kept : \A j \in kept : j <= k
    IN  IF TextLen(JoinWords(ws)) <= width THEN JoinWords(ws)
        ELSE IF kept = {} THEN LStripRuns(Placeholder)
        ELSE JoinWords(SubSeq(ws, 1, last)) \o Placeholder

\* from_paths: the code placed in a block
Capped(code) ==
    IF TextLen(code) > MAX_CHARS_PER_FILE THEN Shorten(code, MAX_CHARS_PER_FILE)
    ELSE code

\* ------------------------------------------------- scanner: the document
\* "# Project layout\n"
LayoutHeading ==
    <<"#", " ", "P", "r", "o", "j", "e", "c", "t", " ", "l", "a", "y", "o",
    "u", "t", NL>>
\* "\n\n# Files\n"
FilesHeading ==
    <<NL, NL, "#", " ", "F", "i", "l", "e", "s", NL>>
\* "* " in front of a path of the tree view
Bullet == <<"*", " ">>
\* the single character U+0060
Backtick == "bq"
\* the snippet up to the path: three backticks, "python "
FenceOpen ==
    <<Backtick, Backtick, Backtick, "p", "y", "t", "h", "o", "n", " ">>
\* the snippet after the code: "\n", three backticks, "\n\n"
FenceClose ==
    <<NL, Backtick, Backtick, Backtick, NL, NL>>
\* "*Further files omitted to fit context*\n"
Notice ==
    <<"*", "F", "u", "r", "t", "h", "e", "r", " ", "f", "i", "l", "e", "s",
      " ", "o", "m", "i", "t", "t", "e", "d", " ", "t", "o", " ", "f", "i",
      "t", " ", "c", "o", "n", "t", "e", "x", "t", "*", NL>>

\* names of the files under the root; sorted() orders paths by them
Names == <<"a", "b", "c", "d", "e", "f", "g", "h", "i">>
Path(i) == <<Names[i], ".", "p", "y">>
NameRank(c) == CHOOSE i \in 1..Len(Names) : Names[i] = c
PathBefore(p, q) == NameRank(p[1]) < NameRank(q[1])

\* md: "\n".join(tree) + "\n\n# Files\n", tree over sorted(files)
TreeView(files) ==
    LET sorted == SortSeq(files, PathBefore)
    IN  Join(<<LayoutHeading>> \o [i \in 1..Len(sorted) |-> Bullet \o sorted[i]])
            \o FilesHeading

HeadPart(files) == [kind |-> "head", text |-> TreeView(files)]
\* the f-string snippet: FenceOpen, path, newline, code, FenceClose
Snippet(path, code) == [kind |-> "block", path |-> path, code |-> code]
NoticePart == [kind |-> "notice", text |-> Notice]

\* len() of one element of body
PartLen(part) ==
    IF part.kind = "block"
    THEN Len(FenceOpen) + Len(part.path) + 1 + TextLen(part.code) + Len(FenceClose)
    ELSE Len(part.text)

\* len("".join(body))
RECURSIVE DocLen(_)
DocLen(b) == IF b = << >> THEN 0 ELSE PartLen(Head(b)) + DocLen(Tail(b))

\* ------------------------------------------------------ scanner: inputs
SmallText == <<Run("a", 5)>>
\* under the per-file cap
NearText == <<Run("a", MAX_CHARS_PER_FILE - 220)>>
\* over the per-file cap, on two lines; the first line and the placeholder
\* come to exactly the cap
LongText ==
    <<Run("a", MAX_CHARS_PER_FILE - TextLen(Placeholder)), Run(NL, 2), Run("b", 6000)>>
SnapTexts == {SmallText, NearText, LongText}
\* the file a relative path names from another working directory, if any
TwinText == <<Run("z", 3)>>

\* a root of up to MaxFiles files, walked in the order of the names or against it
ManyFiles ==
    { [i \in 1..n |-> [path |-> Path(IF up THEN i ELSE n + 1 - i), text |-> t[i]]] :
        <<n, up, t>> \in UNION { {n} \X BOOLEAN \X [1..n -> SnapTexts] : n \in 0..MaxFiles } }

\* contents of a file scanned alone
RunChars == {"a", "b", " ", NL}
RunLens == {1, MAX_CHARS_PER_FILE \div 2, MAX_CHARS_PER_FILE}
Runs == {Run(c, n) : c \in RunChars, n \in RunLens}
Texts ==
    { t \in UNION {[1..k -> Runs] : k \in 0..MaxRuns} :
        \A i \in 1..(Len(t) - 1) : t[i].c # t[i + 1].c }
OneFile == { <<[path |-> Path(1), text |-> t]>> : t \in Texts }

\* the files relative paths name from the root itself
RootMap(rf) == [p \in {rf[i].path : i \in 1..Len(rf)} |->
                   (CHOOSE f \in {rf[i] : i \in 1..Len(rf)} : f.path = p).text]
\* ... and from a directory that holds files of the same names
TwinMap(rf) == [p \in {rf[i].path : i \in 1..Len(rf)} |-> TwinText]

\* ------------------------------------------- CodeScanner and CodeSnapshot
\* CodeScanner(root) is built, the process is in some working directory
InitScan ==
    /\ pc = "scan"
    /\ err = "none"
    /\ model = MODEL_NAME
    /\ context_window = 8192
    /\ history = << >>
    /\ NoAsk
    /\ NoRead
    /\ \/ /\ root_files \in ManyFiles
          /\ gitignore \in {{}, {Path(1)}}
          /\ cwd \in {"root", "other"}
       \/ /\ root_files \in OneFile
          /\ gitignore = {}
          /\ cwd = "root"
    /\ cwd_files \in IF cwd = "root" THEN {RootMap(root_files)}
                     ELSE {<< >>, TwinMap(root_files)}
    /\ py_files = << >>
    /\ idx = 0
    /\ total = 0
    /\ body = << >>

\* GitIgnoreFilter.match
Ignored(p) == p \in gitignore
NotIgnored(f) == ~Ignored(f.path)

\* CodeScanner.scan up to the call of from_paths
ScanWalk ==
    /\ pc = "scan"
    /\ LET keep == SelectSeq(root_files, NotIgnored)
       IN  py_files' = [i \in 1..Len(keep) |-> keep[i].path]
    /\ pc' = "head"
    /\ UNCHANGED <<err, clientVars, optVars, readerVars, renderVars, branch>>
    /\ UNCHANGED <<root_files, gitignore, cwd, cwd_files, idx, total, body>>

\* from_paths: the tree view, total and body before the loop
SnapHead ==
    /\ pc = "head"
    /\ body' = <<HeadPart(py_files)>>
    /\ total' = PartLen(HeadPart(py_files))
    /\ idx' = 1
    /\ pc' = "files"
    /\ UNCHANGED <<err, clientVars, optVars, readerVars, renderVars, branch>>
    /\ UNCHANGED <<root_files, gitignore, cwd, cwd_files, py_files>>

\* a test that lets in the block that crosses the cap
OverflowsAfter(t, n) == t > MAX_TOTAL_CHARS

\* if total + len(snippet) > MAX_TOTAL_CHARS
Overflows(t, n) == t + n > MAX_TOTAL_CHARS

\* from_paths: one round of "for f in files"; f is read relative to cwd
SnapFile ==
    /\ pc = "files"
    /\ idx <= Len(py_files)
    /\ LET f == py_files[idx]
       IN  IF f \notin DOMAIN cwd_files
           THEN /\ pc' = "error"
                /\ err' = "FileNotFoundError"
                /\ UNCHANGED <<idx, total, body>>
           ELSE LET snippet == Snippet(f, Capped(cwd_files[f]))
                IN  IF Overflows(total, PartLen(snippet))
                    THEN /\ body' = Append(body, NoticePart)
                         /\ pc' = "done"
                         /\ UNCHANGED <<err, idx, total>>
                    ELSE /\ body' = Append(body, snippet)
                         /\ total' = total + PartLen(snippet)
                         /\ idx' = idx + 1
                         /\ UNCHANGED <<pc, err>>
    /\ UNCHANGED <<clientVars, optVars, readerVars, renderVars, branch>>
    /\ UNCHANGED <<root_files, gitignore, cwd, cwd_files, py_files>>

\* from_paths: the loop is exhausted, the document is returned
SnapReturn ==
    /\ pc = "files"
    /\ idx > Len(py_files)
    /\ pc' = "done"
    /\ UNCHANGED <<err, clientVars, optVars, readerVars, renderVars, branch>>
    /\ UNCHANGED <<root_files, gitignore, cwd, cwd_files, py_files, idx, total, body>>

NextScan ==
    \/ ScanWalk
    \/ SnapHead
    \/ SnapFile
    \/ SnapReturn

SpecScan == InitScan /\ [][NextScan]_vars

\* ================================================================== claims
UserEntry(p) == [role |-> "user", content |-> p]
AllFail == \A k \in 1..MAX_RETRIES : backend[k] = "fail"
FailFailOk == backend = <<"fail", "fail", "ok">>
\* the ask under way was issued by a direct user and not disturbed by a reset
AskHeld == pc = "hold" /\ clean

\* C2: after an ask consumed to exhaustion without failure, the assistant
\* entry appended to history has as content the in-order concatenation of all
\* the fragments the ask yielded.
C2_AssistantIsConcatenation ==
    (AskHeld /\ gpc = "done") =>
        history[Len(history)] =
            [role |-> "assistant", content |-> Concat(delivered)]

\* C3: each successful, fully consumed ask grows history by exactly two
\* entries, the user entry with the prompt and then an assistant entry; the
\* assistant entry is there only once the fragment sequence is exhausted.
C3_TwoEntriesInOrder ==
    AskHeld =>
        /\ gpc = "fresh" => history = hist0
        /\ gpc \in {"call", "read", "yield", "sleep", "exhausted"} =>
               history = Append(hist0, UserEntry(prompt))
        /\ gpc = "done" =>
               /\ Len(history) = Len(hist0) + 2
               /\ SubSeq(history, 1, Len(hist0) + 1) = Append(hist0, UserEntry(prompt))
               /\ history[Len(history)].role = "assistant"

\* a second ask in a row has been read to its end
C3_Witness ==
    /\ AskHeld
    /\ gpc = "done"
    /\ Len(hist0) = 3
    /\ Len(delivered) = MaxFrags
    /\ Len(history) = 5

\* C4: whatever asks (successful, failed, abandoned) and resets came before,
\* a reset leaves history with exactly one entry, the system message of
\* construction.
C4_ResetLeavesSystemOnly ==
    [][(ApiReset \/ ApiResetMid) => history' = <<SystemMessage>>]_vars

\* a reset has emptied a history that held a finished exchange
C4_Witness ==
    /\ pc = "api"
    /\ gpc \in {"done", "raised", "closed"}
    /\ Len(hist0) > 1
    /\ history = <<SystemMessage>>

\* C5: when the backend fails in attempts 1 and 2 and succeeds in attempt 3,
\* the fully consumed ask ends without error having yielded the successful
\* response, and history has gained one user and one assistant entry.
C5_ThirdAttemptSucceeds ==
    (pc = "hold" /\ gpc = "fresh" /\ FailFailOk)
        ~> /\ pc = "hold"
           /\ gpc = "done"
           /\ calls = MAX_RETRIES
           /\ Len(delivered) >= Len(resp)
           /\ SubSeq(delivered, Len(delivered) - Len(resp) + 1, Len(delivered)) = resp
           /\ Len(history) = Len(hist0) + 2
           /\ SubSeq(history, 1, Len(hist0) + 1) = Append(hist0, UserEntry(prompt))
           /\ history[Len(history)].role = "assistant"

\* the third attempt of an ask has delivered a non-empty response
C5_Witness ==
    /\ pc = "hold"
    /\ gpc = "done"
    /\ FailFailOk
    /\ calls = 3
    /\ resp # << >>

\* C6: when the backend fails in all 3 attempts, the ask ends with the
\* RuntimeError; no assistant entry is appended and the user entry of the
\* ask stays the last entry of history.
C6_AllAttemptsFail ==
    (AskHeld /\ AllFail) =>
        /\ gpc # "done"
        /\ gpc \in {"exhausted", "raised"} =>
               /\ calls = MAX_RETRIES
               /\ history = Append(hist0, UserEntry(prompt))

\* an ask has raised after three failed attempts
C6_Witness ==
    /\ AskHeld
    /\ AllFail
    /\ gpc = "raised"
    /\ Len(hist0) = 3

\* C7: at most 3 backend calls per ask, and a wait follows failed attempt k
\* only when attempt k+1 is made: an ask failing 3 times waits 1.5s and 3.0s
\* and does not wait before raising.
C7_WaitsOnlyBetweenAttempts ==
    /\ calls <= 3
    /\ gpc \in {"call", "read", "yield", "done"} =>
           waits = [k \in 1..(attempt - 1) |-> BACKOFF_SEC_X10 * k]
    /\ gpc \in {"exhausted", "raised"} =>
           waits = <<BACKOFF_SEC_X10, 2 * BACKOFF_SEC_X10>>

\* C1: started with any model name and any positive context size, cli()
\* constructs the facade without error and reaches the first prompt read.
C1_StartupWithoutError ==
    /\ err = "none"
    /\ pc \in {"start", "construct", "read"}

\* -------------------------------------------------------------- C8: reader
NonBlank(l) == Strip(l) # Empty
IsSentinel(l) == Lower(Strip(l)) \in {SendCmd, NewCmd}

RECURSIVE DropEmpties(_)
DropEmpties(s) == IF s # << >> /\ Head(s) = Empty THEN DropEmpties(Tail(s)) ELSE s

\* the lines of text of an input: what follows the leading empty lines, less
\* the last line
TextOf(s) == SubSeq(DropEmpties(s), 1, Len(DropEmpties(s)) - 1)

\* empty lines, then one or more non-blank lines, then an empty line
BlankEnded(s) ==
    /\ Len(DropEmpties(s)) >= 2
    /\ DropEmpties(s)[Len(DropEmpties(s))] = Empty
    /\ \A i \in 1..Len(TextOf(s)) : NonBlank(TextOf(s)[i])

\* the same, and no line of text is a sentinel
BlankEndedPlain(s) ==
    /\ BlankEnded(s)
    /\ \A i \in 1..Len(TextOf(s)) : ~IsSentinel(TextOf(s)[i])

\* C8 as stated: for ANY non-blank lines between the leading empty lines and
\* the closing empty line, the reader returns those lines joined by newlines.
C8_AnyNonBlankLines ==
    (pc = "dispatch" /\ key = "line" /\ BlankEnded(typed \o stdin)) =>
        question = Join(TextOf(typed \o stdin))

\* C8 (amended): for zero or more leading empty lines, then one or more
\* non-blank lines none of which is a /send or /new sentinel, then an empty
\* line, the reader consumes the whole input and returns exactly the non-blank
\* lines joined by newlines, without the closing empty line.
C8_PlainLinesJoined ==
    (pc = "dispatch" /\ key = "line" /\ BlankEndedPlain(typed \o stdin)) =>
        /\ stdin = << >>
        /\ question = Join(TextOf(typed))

\* a block with a leading empty line and two lines of text has been read
C8_Witness ==
    /\ pc = "dispatch"
    /\ key = "line"
    /\ stdin = << >>
    /\ BlankEndedPlain(typed)
    /\ typed[1] = Empty
    /\ Len(TextOf(typed)) = 2

\* --------------------------------------------------------------- C9, C10
\* C9: an interrupt while the prompt reader reads, after any number of
\* captured lines, discards the draft and makes the reader return the empty
\* text; the loop then issues no chat request, leaves history unchanged and
\* goes back to reading a prompt.
C9_InterruptDiscardsDraft ==
    [][ /\ (pc = "read" /\ key' = "int") =>
               (pc' = "dispatch" /\ question' = Empty /\ lines' = << >>)
        /\ (pc = "dispatch" /\ key = "int") =>
               /\ pc' = "read"
               /\ history' = history
               /\ gpc' = "none"
               /\ calls' = calls
               /\ lines' = << >> ]_vars

\* a draft with a line of text was interrupted after an exchange, and the
\* loop is back at reading with nothing asked
C9_Witness ==
    /\ pc = "read"
    /\ key = "int"
    /\ branch = "ignore"
    /\ question = Empty
    /\ typed = << >>
    /\ gpc = "none"
    /\ Len(history) = 3

\* the draft the reader returned has a line of text and then a /new line
DraftThenNew ==
    /\ key = "line"
    /\ Len(lines) >= 2
    /\ Lower(Strip(lines[Len(lines)])) = NewCmd
    /\ \E i \in 1..(Len(lines) - 1) : NonBlank(lines[i])

\* C10 as stated: a draft with a line of text that is ended by a /new line is
\* first submitted to the facade as a user prompt, and history is reset after.
C10_NewSubmitsDraft ==
    [][(pc = "dispatch" /\ DraftThenNew /\ ~IsScancode(question)) =>
           (pc' = "render" /\ gpc' = "fresh" /\ prompt' = question)]_vars

\* C10 (amended): when a draft with at least one line of text is ended by a
\* /new line (and the text does not start with /scancode), the loop issues no
\* chat request for the draft: it resets history to the system entry and goes
\* back to reading; the draft is not submitted.
C10_NewResetsWithoutAsk ==
    [][(pc = "dispatch" /\ DraftThenNew /\ ~IsScancode(question)) =>
           /\ pc' = "read"
           /\ branch' = "new"
           /\ history' = <<SystemMessage>>
           /\ gpc' = "none"
           /\ calls' = calls]_vars

\* a draft "a", "/New" was dispatched while history held an earlier turn, and
\* history is back to the system entry
C10_Witness ==
    /\ pc = "read"
    /\ branch = "new"
    /\ EndsWith(Lower(question), NewCmd)
    /\ Len(question) > Len(NewCmd)
    /\ history = <<SystemMessage>>
    /\ cancelled

\* ---------------------------------------------------------- C11, C12
\* C11: for every returned text that starts with /scancode, with or without
\* a path, the loop scans, hands the result to the facade, issues no chat
\* request and goes on to the next prompt read without an error.
C11_ScancodeContinues ==
    [][(pc = "dispatch" /\ ~IsBlank(question) /\ IsScancode(question)) =>
           (pc' = "read" /\ err' = "none" /\ gpc' = "none")]_vars

\* C12: an interrupt at any point of the rendering never ends the process:
\* the renderer drains the stream until it has ended and the loop then reads
\* the next prompt, also when a further interrupt or a backend failure comes
\* while draining.
C12_InterruptNeverEndsProcess ==
    [][ /\ (pc = "render" /\ cancelled') => pc' = "drain"
        /\ pc = "drain" => pc' \in {"drain", "read"}
        /\ (pc = "drain" /\ pc' = "read") => Ended ]_vars

\* ---------------------------------------------------------- C17, C18
\* the draft the reader returned ends with a /send line
SendEnded ==
    /\ key = "line"
    /\ lines # << >>
    /\ Lower(Strip(lines[Len(lines)])) = SendCmd

\* C17 as stated: every draft ended by a /send line keeps the sentinel as
\* its last line and is submitted in full to ask.
C17_SendDraftAlwaysAsked ==
    [][(pc = "dispatch" /\ SendEnded) =>
           /\ question = Join(lines)
           /\ pc' = "render"
           /\ gpc' = "fresh"
           /\ prompt' = question]_vars

\* C17 (amended): a draft ended by a /send line keeps the sentinel as its
\* last line; unless the text starts with /scancode the loop submits that full
\* text to ask, and the user entry then appended to history has it as content,
\* /send line included: a draft of /send alone is asked with the sentinel as
\* the prompt.
C17_SendKeptAndAsked ==
    [][ /\ (pc = "dispatch" /\ SendEnded) =>
               /\ question = Join(lines)
               /\ EndsWith(Lower(question), SendCmd)
        /\ (pc = "dispatch" /\ SendEnded /\ ~IsScancode(question)) =>
               /\ pc' = "render"
               /\ gpc' = "fresh"
               /\ prompt' = question
        /\ (pc \in {"render", "drain"} /\ gpc = "start" /\ gpc' = "call") =>
               /\ Len(history') = Len(history) + 1
               /\ history'[Len(history')] = UserEntry(prompt) ]_vars

\* the draft /send alone was asked: the user entry is the sentinel
C17_Witness ==
    /\ pc = "render"
    /\ branch = "ask"
    /\ question = SendCmd
    /\ gpc = "yield"
    /\ history[Len(history)] = UserEntry(SendCmd)

\* C18 as stated: whenever an ask started by the loop exhausts its 3
\* attempts, the RuntimeError leaves the render step and the loop; it is
\* never swallowed.
C18_UnavailableAlwaysPropagates ==
    [][(pc \in {"render", "drain"} /\ gpc = "raised") =>
           (pc' = "error" /\ err' = "RuntimeError")]_vars

\* C18 (amended): when an ask exhausts its 3 attempts while the renderer
\* consumes it (no interrupt caught in this turn), the RuntimeError leaves the
\* render step and the loop, and no further prompt is read; when it exhausts
\* them while the renderer drains after an interrupt, the error is suppressed
\* and the loop reads the next prompt.
C18_UnavailablePropagatesFromRender ==
    [][ /\ (pc = "render" /\ gpc = "raised") =>
               (pc' = "error" /\ err' = "RuntimeError")
        /\ pc = "error" => pc' = "error"
        /\ (pc = "drain" /\ gpc = "raised") =>
               (pc' = "read" /\ err' = "none") ]_vars

\* the loop has ended with the RuntimeError of an ask that failed 3 times
C18_Witness ==
    /\ pc = "error"
    /\ err = "RuntimeError"
    /\ gpc = "raised"
    /\ calls = MAX_RETRIES
    /\ ~cancelled

\* ---------------------------------------------------------- C19, C20
\* C19: the fragments an ask that ends successfully has delivered are those
\* of one backend response, the one of the successful attempt.
C19_OneResponseDelivered ==
    (AskHeld /\ gpc = "done") => delivered = resp

\* C20: when rendering is cancelled by an interrupt, wherever it lands, no
\* assistant entry is appended for the turn: when the loop goes back to
\* reading, the last entry of history is the user entry of the cancelled turn.
C20_CancelledTurnHasNoAssistant ==
    [][(pc = "drain" /\ pc' = "read") =>
           history'[Len(history')] = UserEntry(prompt)]_vars

\* ------------------------------------------------- C13..C16: the scanner
\* the block from_paths builds for the i-th file it is given
BlockOf(i) == Snippet(py_files[i], Capped(cwd_files[py_files[i]]))

\* Totals(k)[j + 1]: length of the tree view and the blocks of the first j
\* files, for j up to k
RECURSIVE Totals(_)
Totals(k) ==
    IF k = 0 THEN <<PartLen(HeadPart(py_files))>>
    ELSE LET before == Totals(k - 1)
         IN  Append(before, before[k] + PartLen(BlockOf(k)))

\* how many leading files there are before the first one whose block would
\* push the running total past the global cap
Included ==
    LET sums == Totals(Len(py_files))
        fitting == {k \in 0..Len(py_files) :
                       \A j \in 1..k : sums[j + 1] <= MAX_TOTAL_CHARS}
    IN  CHOOSE k \in fitting : \A j \in fitting : j <= k

BlockParts == {i \in 1..Len(body) : body[i].kind = "block"}

\* C13: the snapshot returned by from_paths is the tree view, then the blocks
\* of the files in scan order up to, and without, the first file whose block
\* would push the running total past 60,000 characters, each block complete
\* (its code capped per file), then the omission notice as the last element
\* if a file was left out; no block of a later file follows, even one that
\* would fit.
C13_StopsAtFirstOverflow ==
    pc = "done" =>
        body = <<HeadPart(py_files)>>
                 \o [i \in 1..Included |-> BlockOf(i)]
                 \o (IF Included < Len(py_files) THEN <<NoticePart>> ELSE << >>)

\* a snapshot that stopped at an overflowing file although a later file would
\* still fit, with a block cut by the per-file cap among the included ones
C13_Witness ==
    /\ pc = "done"
    /\ body[Len(body)] = NoticePart
    /\ Included >= 2
    /\ \E j \in (Included + 2)..Len(py_files) :
           total + PartLen(BlockOf(j)) <= MAX_TOTAL_CHARS
    /\ \E i \in BlockParts : HasMarker(body[i].code)
    /\ py_files # SortSeq(py_files, PathBefore)

\* C14: the whole document built by from_paths (tree view, Files heading,
\* blocks, omission notice) has at most 60,000 characters.
C14_DocumentWithinGlobalCap == DocLen(body) <= MAX_TOTAL_CHARS

\* C15: the code in the block of a file of more than 10,000 characters has at
\* most 10,000 characters and contains the truncation marker; the code in the
\* block of a file of at most 10,000 characters is the file's text, unchanged
\* and without marker.
C15_CappedWithMarker ==
    \A i \in BlockParts :
        LET text == cwd_files[body[i].path]
            code == body[i].code
        IN  /\ TextLen(text) > MAX_CHARS_PER_FILE =>
                   (TextLen(code) <= MAX_CHARS_PER_FILE /\ HasMarker(code))
            /\ TextLen(text) <= MAX_CHARS_PER_FILE =>
                   (code = text /\ ~HasMarker(code))

\* the text of the file at root joined with a root-relative path
RootText(p) == RootMap(root_files)[p]

\* C16: whatever the working directory, the scan does not fail on reading a
\* file, and each block holds the (capped) text of the file at the root
\* joined with the block's path.
C16_BlocksHoldRootFiles ==
    /\ err # "FileNotFoundError"
    /\ \A i \in BlockParts : body[i].code = Capped(RootText(body[i].path))
====
